---- MODULE Spec2Model ----
(***************************************************************************)
(* Model of the fixed-arena allocator of MyAlloc/src/main.c: one span of   *)
(* raw memory carved into chunks (header + payload) linked in address      *)
(* order, first-fit allocation with splitting, and coalescing on free.     *)
(* Addresses are byte addresses; a chunk is identified by the address of   *)
(* its header.                                                             *)
(***************************************************************************)
EXTENDS Integers, Sequences, FiniteSets, TLC

\* ---------------------------------------------------------------- constants
NULL == 0
ALIGNMENT == 8
\* sizeof(struct heapchunk_t) on an LP64 build: uint32_t, uint8_t, padding, pointer
HDR == 16
\* the address mmap hands back (page aligned, never NULL)
Base == 4096
\* A uint32_t is kept as its two 16-bit halves <<high, low>>, because the
\* values near 2^32 that matter for wrap-around exceed the integers of TLC.
Half == 65536

\* ------------------------------------------------------------------- bounds
\* largest arena span of the general specification, in bytes
MaxArena == 80
\* distance between two arena spans that are tried
ArenaStep == 17
\* small request sizes 0, ReqStep, 2*ReqStep, ... up to MaxReq
MaxReq == 25
ReqStep == 5
\* request sizes within WrapReqs of 2^32
WrapReqs == 1
\* final request of the demo scenario leaves out 8..8*MaxSlackUnits bytes
MaxSlackUnits == 24
\* span lengths 0..MaxInitSpan and chain lengths up to MaxInitChunks of the
\* specification that calls heap_init with any span length
MaxInitSpan == 24
MaxInitChunks == 3

VARIABLES
    len,      \* span length given to heap_init (bytes)
    start,    \* heap->start
    avail,    \* heap->avail (uint32_t)
    mem,      \* chunk headers of the chain: header address -> [size, inuse, next]
    live,     \* addresses returned by heap_alloc and not yet freed by the caller
    op,       \* the last call: [name, ptr, size, ret, val]
    running,  \* FALSE once the process has been aborted by the C library
    phase,    \* position of the calling driver
    ptrs      \* the demo driver's ptr1, ptr2, ptr3

vars == <<len, start, avail, mem, live, op, running, phase, ptrs>>

\* ------------------------------------------------------- uint32_t / size_t
\* the uint32_t with value v, for 0 <= v < 2^31
U32(v) == <<v \div Half, v % Half>>
\* the value of a uint32_t below 2^31
Val(u) == u[1] * Half + u[2]
IsSmall(u) == u[1] < Half \div 2

\* a + b of two uint32_t in size_t (64-bit) arithmetic: <<carry, high, low>>
Sum64(a, b) ==
    LET lo == a[2] + b[2]
        hi == a[1] + b[1] + (lo \div Half)
    IN <<hi \div Half, hi % Half, lo % Half>>
\* a + b in uint32_t arithmetic (modulo 2^32)
Add32(a, b) == <<Sum64(a, b)[2], Sum64(a, b)[3]>>
\* a - b in uint32_t arithmetic (modulo 2^32); also the truncation to
\* uint32_t of a - b computed in size_t
Sub32(a, b) ==
    LET lo == a[2] - b[2]
        hi == a[1] - b[1] - (IF lo < 0 THEN 1 ELSE 0)
    IN <<hi % Half, lo % Half>>
\* a >= b, unsigned
Geq32(a, b) == a[1] > b[1] \/ (a[1] = b[1] /\ a[2] >= b[2])
\* a >= t for a uint32_t a and a size_t t = <<carry, high, low>>
Geq64(a, t) == t[1] = 0 /\ Geq32(a, <<t[2], t[3]>>)
\* u & ~(ALIGNMENT - 1)
MaskLow(u) == <<u[1], u[2] - (u[2] % ALIGNMENT)>>

ArenaSizes == {s \in HDR..MaxArena : (MaxArena - s) % ArenaStep = 0}
ReqSizes ==
    {U32(n) : n \in {r \in 0..MaxReq : r % ReqStep = 0}}
        \cup {Sub32(U32(0), U32(k)) : k \in 1..WrapReqs}

\* ------------------------------------------------------------ pure helpers
\* ALIGN(size) for a uint32_t size: (size + 7) & ~7, the sum taken modulo 2^32
MutAlignNone(size) == size
ALIGN(size) == MaskLow(Add32(size, U32(ALIGNMENT - 1)))
\* ALIGN(size) for a size_t size below 2^32: the sum does not wrap
ALIGN64(size) ==
    LET t == Sum64(size, U32(ALIGNMENT - 1)) IN <<t[1], t[2], t[3] - (t[3] % ALIGNMENT)>>

\* (void *)(chunk + 1)
UserPtr(chunk) == chunk + HDR
\* (struct heapchunk_t *)ptr - 1
ChunkOf(ptr) == ptr - HDR

\* !chunk->inuse && chunk->size >= size
Fits(c, size) == ~c.inuse /\ Geq32(c.size, size)

\* chunk->size >= size + sizeof(struct heapchunk_t) + ALIGNMENT  (size_t arithmetic)
MutShouldSplitStrict(csize, size) ==
    Geq64(csize, Sum64(size, U32(HDR + ALIGNMENT + 1)))
MutSplitAlways(csize, size) == Geq32(csize, size)
ShouldSplit(csize, size) == Geq64(csize, Sum64(size, U32(HDR + ALIGNMENT)))

\* (uint8_t *)chunk + sizeof(struct heapchunk_t) + size
NewChunkAddr(chunk, size) == chunk + HDR + Val(size)

\* chunk->size - size - sizeof(struct heapchunk_t), stored in a uint32_t
MutNewChunkSizeNoHeader(csize, size) == Sub32(csize, size)
NewChunkSize(csize, size) == Sub32(Sub32(csize, size), U32(HDR))

\* the scan of heap_alloc: first chunk from c on that fits, or NULL
RECURSIVE FindFit(_, _, _)
MutFindBestFit(m, c, size) ==
    LET fit == {a \in DOMAIN m : Fits(m[a], size)} IN
    IF fit = {} THEN NULL
    ELSE CHOOSE a \in fit : \A b \in fit :
            /\ Geq32(m[b].size, m[a].size)
            /\ m[b].size = m[a].size => a <= b
FindFit(m, c, size) ==
    IF c = NULL THEN NULL
    ELSE IF Fits(m[c], size) THEN c
    ELSE FindFit(m, m[c].next, size)

\* the chain after heap_alloc has taken chunk c for the rounded size
Take(m, c, size) ==
    IF ShouldSplit(m[c].size, size)
    THEN LET n == NewChunkAddr(c, size) IN
         [a \in (DOMAIN m) \cup {n} |->
            IF a = n THEN [size |-> NewChunkSize(m[c].size, size),
                           inuse |-> FALSE, next |-> m[c].next]
            ELSE IF a = c THEN [size |-> size, inuse |-> TRUE, next |-> n]
            ELSE m[a]]
    ELSE [m EXCEPT ![c].inuse = TRUE]

\* !current->inuse && current->next != NULL && !current->next->inuse
MutCanMergeAny(m, cur) == ~m[cur].inuse /\ m[cur].next # NULL
CanMerge(m, cur) ==
    ~m[cur].inuse /\ m[cur].next # NULL /\ ~m[m[cur].next].inuse

\* current->size += sizeof(struct heapchunk_t) + current->next->size;
\* current->next = current->next->next;
MutMergeNoHeader(m, cur) ==
    LET nx == m[cur].next IN
    [a \in (DOMAIN m) \ {nx} |->
        IF a = cur THEN [size |-> Add32(m[cur].size, m[nx].size),
                         inuse |-> m[cur].inuse, next |-> m[nx].next]
        ELSE m[a]]
Merge(m, cur) ==
    LET nx == m[cur].next IN
    [a \in (DOMAIN m) \ {nx} |->
        IF a = cur THEN [size |-> Add32(m[cur].size, Add32(U32(HDR), m[nx].size)),
                         inuse |-> m[cur].inuse, next |-> m[nx].next]
        ELSE m[a]]

\* the first loop of heap_free: one pass over the chain, at most one merge
\* per visited chunk, then on to that chunk's (new) next
RECURSIVE Coalesce(_, _)
Coalesce(m, cur) ==
    IF cur = NULL THEN m
    ELSE IF CanMerge(m, cur)
         THEN LET m2 == Merge(m, cur) IN Coalesce(m2, m2[cur].next)
         ELSE Coalesce(m, m[cur].next)

\* the second loop of heap_free: heap->avail += current->size over free chunks
RECURSIVE SumFree(_, _, _)
MutSumAll(m, cur, acc) ==
    IF cur = NULL THEN acc
    ELSE SumFree(m, m[cur].next, Add32(acc, m[cur].size))
SumFree(m, cur, acc) ==
    IF cur = NULL THEN acc
    ELSE SumFree(m, m[cur].next,
                 IF ~m[cur].inuse THEN Add32(acc, m[cur].size) ELSE acc)

\* ------------------------------------------------------------- operations
\* heap_init(heap, start, size).  It checks nothing: with size below one
\* header the subtraction wraps, and the header is written past the end of
\* the span, which is undefined: the process is aborted, or the memory
\* behind the span is mapped (mmap hands out whole pages) and it goes on.
HeapInit(size) ==
    /\ len = size
    /\ start = Base
    /\ mem = (Base :> [size |-> Sub32(U32(size), U32(HDR)), inuse |-> FALSE, next |-> NULL])
    /\ avail = Sub32(U32(size), U32(HDR))
    /\ live = {}
    /\ op = [name |-> "init", ptr |-> Base, size |-> U32(size), ret |-> NULL, val |-> U32(0)]
    /\ running \in IF size >= HDR THEN {TRUE} ELSE BOOLEAN
    /\ ptrs = <<>>

\* heap_alloc(heap, size)
heap_alloc(n) ==
    LET size == ALIGN(n)
        c == FindFit(mem, start, size)
    IN /\ running
       /\ IF c = NULL
          THEN /\ op' = [name |-> "alloc", ptr |-> NULL, size |-> n, ret |-> NULL, val |-> U32(0)]
               /\ UNCHANGED <<mem, live>>
          ELSE /\ mem' = Take(mem, c, size)
               /\ live' = live \cup {UserPtr(c)}
               /\ op' = [name |-> "alloc", ptr |-> NULL, size |-> n, ret |-> UserPtr(c), val |-> U32(0)]
       /\ UNCHANGED <<len, start, avail, running>>

\* if (ptr == NULL) return;  in heap_free
MutFreeNullStillScans ==
    /\ mem' = Coalesce(mem, start)
    /\ avail' = SumFree(Coalesce(mem, start), start, U32(0))
    /\ UNCHANGED live
FreeNull == UNCHANGED <<mem, avail, live>>

\* heap_free(heap, ptr)
heap_free(p) ==
    /\ running
    /\ IF p = NULL
       THEN FreeNull
       ELSE LET m1 == [mem EXCEPT ![ChunkOf(p)].inuse = FALSE]
                m2 == Coalesce(m1, start)
            IN /\ mem' = m2
               /\ avail' = SumFree(m2, start, U32(0))
               /\ live' = live \ {p}
    /\ op' = [name |-> "free", ptr |-> p, size |-> U32(0), ret |-> NULL, val |-> U32(0)]
    /\ UNCHANGED <<len, start, running>>

\* heap_sizeof(ptr)
SizeOf(m, p) == IF p = NULL THEN U32(0) ELSE m[ChunkOf(p)].size
heap_sizeof(p) ==
    /\ running
    /\ op' = [name |-> "sizeof", ptr |-> p, size |-> U32(0), ret |-> NULL, val |-> SizeOf(mem, p)]
    /\ UNCHANGED <<len, start, avail, mem, live, running>>

\* heap_info(heap): renders start, avail and every chunk of the chain; reads only
heap_info ==
    /\ running
    /\ op' = [name |-> "info", ptr |-> start, size |-> U32(0), ret |-> NULL, val |-> avail]
    /\ UNCHANGED <<len, start, avail, mem, live, running>>

\* size = ALIGN(size); chunk->size >= size, in heap_realloc
MutReallocFitsStrict(csize, n) ==
    Geq64(csize, ALIGN64(n)) /\ <<0, csize[1], csize[2]>> # ALIGN64(n)
ReallocFits(csize, n) == Geq64(csize, ALIGN64(n))

\* malloc of the C library: fails, or returns a block that is not in the arena
LibcBlock == 64
Malloc == {NULL, LibcBlock}

\* new_ptr = malloc(size); if (new_ptr == NULL) return NULL; ... free(ptr):
\* the addresses heap_realloc hands to free when malloc returned r
MutReleasedAlways(p, r) == {p}
Released(p, r) == IF r = NULL THEN {} ELSE {p}

\* free(ptr) of the C library on a pointer that malloc never returned is
\* undefined: the library aborts the process or returns; the chunk chain is
\* not touched in either case because the library knows nothing of the arena.
\* heap_realloc(ptr, size), size being a size_t
heap_realloc(p, n) ==
    /\ running
    /\ UNCHANGED <<len, start, avail, mem>>
    /\ IF p = NULL
       THEN \E r \in Malloc :
               /\ op' = [name |-> "realloc", ptr |-> p, size |-> n, ret |-> r, val |-> U32(0)]
               /\ UNCHANGED <<live, running>>
       ELSE IF n = U32(0)
       THEN /\ running' \in BOOLEAN
            /\ live' = live \ {p}
            /\ op' = [name |-> "realloc", ptr |-> p, size |-> n, ret |-> NULL, val |-> U32(0)]
       ELSE IF ReallocFits(mem[ChunkOf(p)].size, n)
       THEN /\ op' = [name |-> "realloc", ptr |-> p, size |-> n, ret |-> p, val |-> U32(0)]
            /\ UNCHANGED <<live, running>>
       ELSE \E r \in Malloc :
               /\ op' = [name |-> "realloc", ptr |-> p, size |-> n, ret |-> r, val |-> U32(0)]
               /\ live' = live \ Released(p, r)
               /\ IF Released(p, r) = {}
                  THEN UNCHANGED running
                  ELSE running' \in BOOLEAN

\* ---------------------------------------------- general specification: Spec
Init ==
    /\ \E s \in ArenaSizes : HeapInit(s)
    /\ phase = "any"

Alloc == \E n \in ReqSizes : heap_alloc(n) /\ UNCHANGED <<phase, ptrs>>
Free == \E p \in live \cup {NULL} : heap_free(p) /\ UNCHANGED <<phase, ptrs>>
Sizeof == \E p \in live \cup {NULL} : heap_sizeof(p) /\ UNCHANGED <<phase, ptrs>>

Realloc ==
    \E p \in live \cup {NULL} : \E n \in ReqSizes :
        heap_realloc(p, n) /\ UNCHANGED <<phase, ptrs>>

Info == heap_info /\ UNCHANGED <<phase, ptrs>>

Next == Alloc \/ Free \/ Sizeof \/ Realloc \/ Info

Spec == Init /\ [][Next]_vars

\* ------------------------ heap_init called with any span length: SpecAnyInit
AnyInit ==
    /\ \E s \in 0..MaxInitSpan : HeapInit(s)
    /\ phase = "any"

\* a wrapped first chunk never runs out, so the chain length is capped here
AnyAlloc == Cardinality(DOMAIN mem) < MaxInitChunks /\ Alloc

AnyNext == AnyAlloc \/ Free \/ Sizeof \/ Info

SpecAnyInit == AnyInit /\ [][AnyNext]_vars

\* ------------------------------- exhaustion driver: fill, drain, then probe
\* spans as the arena provider hands them out: whole multiples of 8 bytes
ExhaustArenas == {s \in HDR..MaxArena : s % ALIGNMENT = 0}

ExhaustInit ==
    /\ \E s \in ExhaustArenas : HeapInit(s)
    /\ phase = "fill"

\* allocate the same request size again and again until heap_alloc fails
ExhaustFill ==
    /\ phase = "fill"
    /\ \E n \in ReqSizes :
          /\ op.name = "alloc" => n = op.size
          /\ heap_alloc(n)
          /\ phase' = IF FindFit(mem, start, ALIGN(n)) = NULL THEN "drain" ELSE "fill"
    /\ UNCHANGED ptrs

\* free every outstanding allocation, in any order
ExhaustDrain ==
    /\ phase = "drain"
    /\ \E p \in live : heap_free(p)
    /\ UNCHANGED <<phase, ptrs>>

\* one request for the full usable capacity: span length minus one header
ExhaustProbe ==
    /\ phase = "drain"
    /\ live = {}
    /\ heap_alloc(U32(len - HDR))
    /\ phase' = "done"
    /\ UNCHANGED ptrs

ExhaustNext == ExhaustFill \/ ExhaustDrain \/ ExhaustProbe

SpecExhaust == ExhaustInit /\ [][ExhaustNext]_vars

\* ------------------------------------------------ demo driver: main()
DemoArena == 4096
DemoSizes == <<128, 256, 512>>

DemoInit ==
    /\ HeapInit(DemoArena)
    /\ phase = "demo"

\* ptr1 = heap_alloc(&heap, 128); ptr2 = ...256; ptr3 = ...512
DemoAlloc ==
    /\ phase = "demo"
    /\ Len(ptrs) < Len(DemoSizes)
    /\ heap_alloc(U32(DemoSizes[Len(ptrs) + 1]))
    /\ ptrs' = Append(ptrs, op'.ret)
    /\ UNCHANGED phase

\* printf("%s", heap_info(&heap))
DemoInfo ==
    /\ phase = "demo"
    /\ heap_info
    /\ UNCHANGED <<phase, ptrs>>

\* heap_free of ptr1, ptr2, ptr3; main frees them in this order, the
\* scenario in every order
DemoFree ==
    /\ phase = "demo"
    /\ Len(ptrs) = Len(DemoSizes)
    /\ \E i \in 1..Len(ptrs) : ptrs[i] \in live /\ heap_free(ptrs[i])
    /\ UNCHANGED <<phase, ptrs>>

\* the scenario's closing request: 4096 - 3 * header width - slack
DemoFinal ==
    /\ phase = "demo"
    /\ Len(ptrs) = Len(DemoSizes)
    /\ live = {}
    /\ \E k \in 1..MaxSlackUnits :
          heap_alloc(U32(DemoArena - 3 * HDR - ALIGNMENT * k))
    /\ phase' = "done"
    /\ UNCHANGED ptrs

DemoNext == DemoAlloc \/ DemoInfo \/ DemoFree \/ DemoFinal

SpecDemo == DemoInit /\ [][DemoNext]_vars

\* ------------------------------------------------- vocabulary of the claims
\* the header addresses of the chain, in chain order
RECURSIVE ChainFrom(_, _)
ChainFrom(m, c) == IF c = NULL THEN <<>> ELSE <<c>> \o ChainFrom(m, m[c].next)
Chain == ChainFrom(mem, start)
ChainSet == {Chain[i] : i \in 1..Len(Chain)}
FreeChunks == {c \in ChainSet : ~mem[c].inuse}

\* sum of the payload sizes of a set of chunks, as a mathematical integer
RECURSIVE TotalSize(_)
TotalSize(S) ==
    IF S = {} THEN 0
    ELSE LET c == CHOOSE x \in S : TRUE IN Val(mem[c].size) + TotalSize(S \ {c})

AfterFree == op.name = "free" /\ op.ptr # NULL
AllocOk == op.name = "alloc" /\ op.ret # NULL
AllocFailed == op.name = "alloc" /\ op.ret = NULL

\* two chunks that follow each other in the chain and are both free
AdjacentFree(c) == ~mem[c].inuse /\ mem[c].next # NULL /\ ~mem[mem[c].next].inuse

\* C1: right after every non-null free no two chunks adjacent in the chain
\* are both free.
C1_CoalescingComplete == AfterFree => \A c \in ChainSet : ~AdjacentFree(c)

\* C2: the outstanding allocations lie inside the arena span and their
\* payload byte ranges [address, address + chunk size) are pairwise disjoint.
PayloadEnd(p) == p + Val(mem[ChunkOf(p)].size)
C2_OutstandingDisjoint ==
    /\ \A p \in live :
          /\ ChunkOf(p) \in ChainSet
          /\ IsSmall(mem[ChunkOf(p)].size)
          /\ Base <= p
          /\ PayloadEnd(p) <= Base + len
    /\ \A p, q \in live : p # q => (PayloadEnd(p) <= q \/ PayloadEnd(q) <= p)
C2_Witness ==
    /\ AllocOk
    /\ Cardinality(live) >= 3
    /\ FreeChunks # {}
    /\ \E p \in live : Val(mem[ChunkOf(p)].size) > 0

\* C3: in every reachable state avail equals the sum of size over the free
\* chunks of the chain.
C3_AvailAlwaysFreeSum == IsSmall(avail) /\ Val(avail) = TotalSize(FreeChunks)

\* C4: right after every non-null free avail equals the exact sum of the
\* payload sizes of the free chunks of the chain as coalescing left it.
C4_AvailAfterFree ==
    AfterFree => (IsSmall(avail) /\ Val(avail) = TotalSize(FreeChunks))
C4_Witness ==
    /\ AfterFree
    /\ Cardinality(FreeChunks) >= 2
    /\ live # {}
    /\ Val(avail) > 0

\* C5: after allocating one request size until failure and freeing every
\* outstanding allocation, a single request for the full usable capacity
\* succeeds.
C5_ExhaustionRestores == phase = "done" => op.ret # NULL

\* C6: on the 4096-byte arena the three allocations succeed with strictly
\* increasing, non-overlapping addresses, and after freeing them in any order
\* the closing request of 4096 - 3 * header width - slack succeeds.
C6_DemoScenario ==
    /\ \A i \in 1..Len(ptrs) : ptrs[i] # NULL
    /\ \A i \in 1..Len(ptrs) - 1 : ptrs[i] + DemoSizes[i] <= ptrs[i + 1]
    /\ phase = "done" => op.ret # NULL

\* n exceeds the total free capacity of the arena
ExceedsFree(n) == ~IsSmall(n) \/ Val(n) > TotalSize(FreeChunks)

\* C7: a request larger than the total free capacity makes heap_alloc return
\* NULL and leaves every chunk of the chain and avail unchanged.
C7_OversizeFails ==
    [][(op'.name = "alloc" /\ ExceedsFree(op'.size))
          => (op'.ret = NULL /\ mem' = mem /\ avail' = avail)]_vars

\* C8: right after a successful heap_alloc(n) heap_sizeof of the returned
\* address is at least n rounded up to a multiple of 8, and heap_sizeof of
\* an outstanding address is the stored size of its chunk, which is in use.
C8_RoundTrip ==
    /\ AllocOk => Geq64(SizeOf(mem, op.ret), ALIGN64(op.size))
    /\ \A p \in live : ChunkOf(p) \in ChainSet /\ mem[ChunkOf(p)].inuse

\* C9: the address a successful heap_alloc returns is one header width past
\* the header of an in-use chunk of the chain and does not fall on or inside
\* the header of any chunk of the chain.
InsideHeader(a) == \E h \in ChainSet : h <= a /\ a < h + HDR
C9_NeverAliasesHeader ==
    AllocOk => /\ ChunkOf(op.ret) \in ChainSet
               /\ mem[ChunkOf(op.ret)].inuse
               /\ ~InsideHeader(op.ret)

\* a heap_realloc step on an outstanding address whose rounded new size fits
ReallocFitStep ==
    /\ op'.name = "realloc"
    /\ op'.ptr \in live
    /\ Geq64(mem[ChunkOf(op'.ptr)].size, ALIGN64(op'.size))
SameArena == UNCHANGED <<len, start, avail, mem, live, running>>

\* C10 as stated: heap_realloc of an outstanding address with any new size
\* whose rounded value fits, zero included, returns the same address and
\* changes nothing.
C10_FitReturnsSame_Original ==
    [][ReallocFitStep => (op'.ret = op'.ptr /\ SameArena)]_vars

\* C10 amended: heap_realloc of an outstanding address with a new size
\* greater than zero whose rounded value fits the chunk returns the same
\* address and leaves the chunk and the rest of the arena unchanged.
C10_FitReturnsSame ==
    [][(ReallocFitStep /\ op'.size # U32(0)) => (op'.ret = op'.ptr /\ SameArena)]_vars
C10_Witness ==
    /\ op.name = "realloc"
    /\ op.ptr \in live
    /\ op.ret = op.ptr
    /\ op.size # U32(0)
    /\ Val(mem[ChunkOf(op.ptr)].size) >= Val(op.size) + HDR + ALIGNMENT
    /\ FreeChunks # {}

\* a heap_realloc step on an outstanding address that needs a larger block
\* and whose malloc failed
ReallocGrowFailedStep ==
    /\ op'.name = "realloc"
    /\ op'.ptr \in live
    /\ op'.size # U32(0)
    /\ ~Geq64(mem[ChunkOf(op'.ptr)].size, ALIGN64(op'.size))
    /\ op'.ret = NULL

\* C11: when heap_realloc needs a larger block and allocating it fails, it
\* returns NULL, the original chunk stays in the chain, in use and
\* outstanding with its size, and the chain and avail are unchanged.
C11_GrowFailureKeepsChunk ==
    [][ReallocGrowFailedStep =>
          /\ SameArena
          /\ op'.ptr \in live'
          /\ mem'[ChunkOf(op'.ptr)].inuse]_vars
C11_Witness ==
    /\ op.name = "realloc"
    /\ op.ptr \in live
    /\ op.size # U32(0)
    /\ ~Geq64(mem[ChunkOf(op.ptr)].size, ALIGN64(op.size))
    /\ op.ret = NULL
    /\ running
    /\ Cardinality(live) >= 2

\* C12: heap_init with a span shorter than one header reports an error and
\* produces no first chunk of zero, wrapped or span-exceeding size; with a
\* span of at least one header it produces exactly one free chunk of size
\* span length - header width, with no next, and avail equal to that size.
C12_InitRejectsSmallSpan ==
    op.name = "init" =>
        IF len < HDR
        THEN ~(/\ start \in DOMAIN mem
               /\ \/ mem[start].size = U32(0)
                  \/ ~IsSmall(mem[start].size)
                  \/ Val(mem[start].size) + HDR > len)
        ELSE /\ start = Base
             /\ DOMAIN mem = {start}
             /\ mem[start] = [size |-> U32(len - HDR), inuse |-> FALSE, next |-> NULL]
             /\ avail = U32(len - HDR)

\* C13: heap_free(NULL) leaves the chunk chain, adjacent free chunks
\* included, and avail exactly as they were, and heap_sizeof(NULL) returns 0
\* and changes nothing.
C13_NullIsNoOp ==
    [][/\ (op'.name = "free" /\ op'.ptr = NULL) => SameArena
       /\ (op'.name = "sizeof" /\ op'.ptr = NULL) => (op'.val = U32(0) /\ SameArena)]_vars
C13_Witness ==
    /\ op.name = "free"
    /\ op.ptr = NULL
    /\ \E c \in ChainSet : AdjacentFree(c)
    /\ Val(avail) # TotalSize(FreeChunks)
    /\ live # {}

LastChunk == Chain[Len(Chain)]
\* the byte right behind a chunk: header address + header width + size
ChunkEnd(c) == c + HDR + Val(mem[c].size)

\* C14: the first chunk is at the arena base, the next of every chunk but
\* the last is the byte right behind that chunk, the last chunk ends at
\* base + span length, and header width + size over all chunks sums to the
\* span length.
C14_Tiling ==
    /\ start = Base
    /\ Chain[1] = Base
    /\ \A c \in ChainSet : IsSmall(mem[c].size)
    /\ \A c \in ChainSet : c # LastChunk => mem[c].next = ChunkEnd(c)
    /\ ChunkEnd(LastChunk) = Base + len
    /\ TotalSize(ChainSet) + HDR * Cardinality(ChainSet) = len
C14_Witness ==
    /\ AfterFree
    /\ Len(Chain) >= 3
    /\ \E c \in FreeChunks : c # LastChunk /\ Val(mem[c].size) >= HDR
    /\ live # {}

\* the free chunks of the chain whose size is at least the rounded request
Candidates(n) == {c \in FreeChunks : Geq32(mem[c].size, ALIGN(n))}
Lowest(S) == CHOOSE c \in S : \A x \in S : c <= x

\* C15: heap_alloc(n) takes the lowest-addressed chunk of the chain that is
\* free with size >= ALIGN(n), marks it in use and returns its payload
\* address; it returns NULL exactly when the chain has no such chunk.
C15_FirstFit ==
    [][op'.name = "alloc" =>
          IF Candidates(op'.size) = {}
          THEN op'.ret = NULL
          ELSE /\ op'.ret = Lowest(Candidates(op'.size)) + HDR
               /\ mem'[Lowest(Candidates(op'.size))].inuse]_vars
\* the chunk just taken was not split, and a later chunk that is still free
\* would have been the tighter fit
C15_Witness ==
    /\ AllocOk
    /\ \E c \in FreeChunks :
          /\ c > ChunkOf(op.ret)
          /\ Geq32(mem[c].size, ALIGN(op.size))
          /\ Val(mem[c].size) < Val(mem[ChunkOf(op.ret)].size)

\* what a heap_alloc step did to the chunk it took, S being that chunk's
\* size before the step and r the rounded request
SplitStep(c, r) ==
    /\ mem'[c] = [size |-> U32(r), inuse |-> TRUE, next |-> c + HDR + r]
    /\ c + HDR + r \notin DOMAIN mem
    /\ DOMAIN mem' = DOMAIN mem \cup {c + HDR + r}
    /\ mem'[c + HDR + r] = [size |-> U32(Val(mem[c].size) - r - HDR),
                            inuse |-> FALSE, next |-> mem[c].next]
WholeStep(c) ==
    /\ mem'[c] = [mem[c] EXCEPT !.inuse = TRUE]
    /\ DOMAIN mem' = DOMAIN mem

\* C16: heap_alloc splits the chunk of size S it selected for the rounded
\* request r exactly when S - r >= header width + 8; a split leaves the chunk
\* with size r, followed by a new free chunk of size S - r - header width
\* that inherits the old next; otherwise the chunk keeps S and its next.
C16_SplitThreshold ==
    [][(op'.name = "alloc" /\ op'.ret # NULL) =>
          LET c == ChunkOf(op'.ret)
              r == Val(ALIGN(op'.size))
          IN IF Val(mem[c].size) - r >= HDR + ALIGNMENT
             THEN SplitStep(c, r)
             ELSE WholeStep(c)]_vars
\* a split at exactly header width + 8 left a new free chunk of 8 bytes
C16_Witness ==
    /\ AllocOk
    /\ mem[ChunkOf(op.ret)].size = ALIGN(op.size)
    /\ mem[ChunkOf(op.ret)].next # NULL
    /\ mem[mem[ChunkOf(op.ret)].next] =
          [size |-> U32(ALIGNMENT), inuse |-> FALSE, next |-> NULL]
\* a chunk with header width + 7 bytes to spare was handed out whole
C16_WitnessNoSplit ==
    /\ AllocOk
    /\ Val(mem[ChunkOf(op.ret)].size) = Val(ALIGN(op.size)) + HDR + ALIGNMENT - 1

\* C17: every chunk but the last has a size that is a multiple of 8, also
\* on spans whose length is not a multiple of 8, and no size has wrapped.
C17_SizesAligned ==
    /\ \A c \in ChainSet : c # LastChunk => Val(mem[c].size) % ALIGNMENT = 0
    /\ \A c \in ChainSet : IsSmall(mem[c].size) /\ Val(mem[c].size) <= len - HDR
C17_Witness ==
    /\ len % ALIGNMENT # 0
    /\ Len(Chain) >= 3
    /\ Val(mem[LastChunk].size) % ALIGNMENT # 0
    /\ AfterFree

\* C18: the size heap_alloc searches for and stores is the request rounded
\* up to the least multiple of 8 that is >= the request, never less than the
\* request, also for requests within 7 of 2^32.
C18_RoundsUp ==
    op.name = "alloc" =>
        /\ Geq32(ALIGN(op.size), op.size)
        /\ ALIGN(op.size)[2] % ALIGNMENT = 0
        /\ ~Geq32(Sub32(ALIGN(op.size), op.size), U32(ALIGNMENT))
        /\ op.ret # NULL => Geq32(mem[ChunkOf(op.ret)].size, op.size)

\* C19: the chain is acyclic with strictly increasing chunk addresses, every
\* link stays inside the chain, and the chain has at most span length /
\* header width chunks, which bounds every scan of the chain.
C19_ChainBounded ==
    /\ start \in DOMAIN mem
    /\ \A c \in DOMAIN mem :
          mem[c].next # NULL => (mem[c].next \in DOMAIN mem /\ mem[c].next > c)
    /\ Cardinality(DOMAIN mem) * HDR <= len
    /\ Len(Chain) = Cardinality(DOMAIN mem)
    /\ Len(Chain) <= len \div HDR
C19_Witness ==
    /\ Len(Chain) >= 4
    /\ \E c \in ChainSet : mem[c].size = U32(0)
    /\ AllocOk

\* C20: a heap_alloc or heap_free step leaves every other chunk that is in
\* use where it is, with its size and still in use.
OtherInUse(c) ==
    /\ mem[c].inuse
    /\ ~(op'.name = "free" /\ op'.ptr # NULL /\ c = ChunkOf(op'.ptr))
C20_OthersUntouched ==
    [][op'.name \in {"alloc", "free"} =>
          \A c \in DOMAIN mem : OtherInUse(c) =>
              /\ c \in DOMAIN mem'
              /\ mem'[c].size = mem[c].size
              /\ mem'[c].inuse]_vars
C20_Witness ==
    /\ AfterFree
    /\ Cardinality(live) >= 2
    /\ \E c \in FreeChunks :
          /\ Val(mem[c].size) >= HDR
          /\ mem[c].next # NULL
          /\ mem[mem[c].next].inuse
====
